---- MODULE Spec2Model ----
(***************************************************************************)
(* Voice Interaction Controller of static/script.js: the two module-level  *)
(* variables (recognition, listening), the DOM fields and the speech queue *)
(* the handlers touch, the recognizer objects the browser drives, and the  *)
(* async handlers suspended at an await.                                   *)
(* Every handler runs to its next await as one step (single UI thread).    *)
(***************************************************************************)
EXTENDS Integers, Sequences, FiniteSets, Bags, TLC

VARIABLES
  window,       \* which of "SpeechRecognition", "webkitSpeechRecognition" the browser exposes
  dom,          \* ids of the elements present in the page
  emailValue,   \* value of #emailField, a sequence of characters
  recognition,  \* script.js:3: null, or the recognizer it refers to, given by the
                \* lifecycle position of that recognizer
  orphans,      \* recognizers the script no longer refers to and the browser still runs
                \* (their handlers stay attached): a bag of lifecycle positions
  listening,    \* script.js:4
  micLabel,     \* textContent of #micBtn
  userText,     \* value of #userText
  botText,      \* value of #botText
  synth,        \* window.speechSynthesis: utterances queued or playing
  asks,         \* onresult handlers suspended at their awaits, in issue order
  resets,       \* resetUI calls suspended at their await
  logouts,      \* logout calls suspended at their await
  location,     \* window.location.href
  last          \* the handler that ran last: its name, input, whether it raised, its calls

vars == <<window, dom, emailValue, recognition, orphans, listening, micLabel, userText,
          botText, synth, asks, resets, logouts, location, last>>

-----------------------------------------------------------------------------
(* Bounds *)
MaxSessions == 2      \* recognizers alive at once
MaxInFlight == 2      \* async handlers suspended at once

-----------------------------------------------------------------------------
(* Constants of the program and its environment *)
null == "null"
IdleLabel == "Start Listening"
ListeningLabel == "Listening..."
Fallback == "I didn't catch that. Try asking about leave balance, booking meeting rooms, or 'show policies'."
UnsupportedMsg == "Speech recognition not supported in this browser. Use Chrome (desktop or mobile)."
AskUrl == "POST /ask"
ResetUrl == "POST /reset"
LogoutUrl == "GET /logout"
LoginPage == "/login"

Elements == {"micBtn", "stopBtn", "resetBtn", "logoutBtn", "userText", "botText", "emailField"}
Capabilities == {"SpeechRecognition", "webkitSpeechRecognition"}
Transcripts == {"book a room", "leave balance"}
Replies == {"", "Room booked"}
EmailValues == {<<" ", "a", " ", "b", " ">>}

(* Lifecycle of a recognizer after start(): the browser fires start, then at *)
(* most one result (continuous is off), possibly error, and at last end.     *)
LivePositions == {"starting", "active", "resulted", "errored"}
Refs == {"held", "orphan"}

-----------------------------------------------------------------------------
(* String.prototype.trim on a sequence of characters *)
IsSpace(c) == c = " "

RECURSIVE TrimStart(_)
TrimStart(s) == IF s # << >> /\ IsSpace(Head(s)) THEN TrimStart(Tail(s)) ELSE s

RECURSIVE TrimEnd(_)
TrimEnd(s) ==
  IF s # << >> /\ IsSpace(s[Len(s)]) THEN TrimEnd(SubSeq(s, 1, Len(s) - 1)) ELSE s

Trim(s) == TrimEnd(TrimStart(s))

(* JavaScript truthiness of a string *)
Falsy(text) == text = ""

-----------------------------------------------------------------------------
(* Calls a handler makes, in program order *)
Call(f, target, text, email) == [f |-> f, target |-> target, text |-> text, email |-> email]
Cancel == Call("speechSynthesis.cancel", "", "", << >>)
SpeakCall(t) == Call("speechSynthesis.speak", "", t, << >>)
SetValue(id, t) == Call("set", id, t, << >>)
Fetch(url, msg, email) == Call("fetch", url, msg, email)
Alert(t) == Call("alert", "", t, << >>)
StopCall == Call("recognition.stop", "", "", << >>)
StartCall == Call("recognition.start", "", "", << >>)
Log(level) == Call(level, "", "", << >>)
Navigate(url) == Call("navigate", url, "", << >>)

Outcome(kind, has, reply) == [kind |-> kind, has |-> has, reply |-> reply]
NoOutcome == Outcome("none", FALSE, "")
Settled(op, out, threw, calls) ==
  [op |-> op, text |-> "", out |-> out, threw |-> threw, calls |-> calls]
Ran(op, text, threw, calls) ==
  [op |-> op, text |-> text, out |-> NoOutcome, threw |-> threw, calls |-> calls]

Has(id) == id \in dom
PageLoaded == location = "/"

One(x) == SetToBag({x})
LiveCount == BagCardinality(orphans) + (IF recognition \in LivePositions THEN 1 ELSE 0)
InFlight == Len(asks) + resets + logouts
Request(msg, email) == [message |-> msg, email |-> email]
RemoveAt(q, i) == SubSeq(q, 1, i - 1) \o SubSeq(q, i + 1, Len(q))

-----------------------------------------------------------------------------
Init ==
  /\ window \in {{}, {"webkitSpeechRecognition"}}
  /\ dom \in {Elements, Elements \ {"emailField"}}
  /\ emailValue \in (IF Has("emailField") THEN EmailValues ELSE {<< >>})
  /\ recognition = null
  /\ orphans = EmptyBag
  /\ listening = FALSE
  /\ micLabel = IdleLabel
  /\ userText = ""
  /\ botText = ""
  /\ synth = << >>
  /\ asks = << >>
  /\ resets = 0
  /\ logouts = 0
  /\ location = "/"
  /\ last = Ran("load", "", FALSE, << >>)

-----------------------------------------------------------------------------
(* speak(text): the queue after the call, and the calls made *)
speakQueue_NoCancel(text, q) == IF Falsy(text) THEN q ELSE Append(q, text)
speakQueue(text, q) == IF Falsy(text) THEN q ELSE << text >>
speakCalls(text) == IF Falsy(text) THEN << >> ELSE << Cancel, SpeakCall(text) >>

-----------------------------------------------------------------------------
(* startRecognition(), the click handler of #micBtn: lines 14-24 and 62.    *)
(* Line 21 overwrites the reference: a recognizer it held that is still     *)
(* running becomes an orphan.                                               *)
AlreadyListening_NoGuard == FALSE
AlreadyListening == listening
Unsupported_LostNegation ==
  "webkitSpeechRecognition" \notin window /\ "SpeechRecognition" \in window
Unsupported == "webkitSpeechRecognition" \notin window /\ "SpeechRecognition" \notin window
Released == IF recognition \in LivePositions THEN orphans (+) One(recognition) ELSE orphans

startRecognition ==
  /\ PageLoaded /\ Has("micBtn")
  /\ IF AlreadyListening
       THEN /\ last' = Ran("startRecognition", "", FALSE, << >>)
            /\ UNCHANGED <<recognition, orphans>>
       ELSE IF Unsupported
         THEN /\ last' = Ran("startRecognition", "", FALSE, << Alert(UnsupportedMsg) >>)
              /\ UNCHANGED <<recognition, orphans>>
         ELSE /\ LiveCount < MaxSessions
              /\ orphans' = Released
              /\ recognition' = "starting"
              /\ last' = Ran("startRecognition", "", FALSE, << StartCall >>)
  /\ UNCHANGED <<window, dom, emailValue, listening, micLabel, userText, botText,
                 synth, asks, resets, logouts, location>>

(* The browser moves recognizer r (the held one, or an orphan) from one     *)
(* lifecycle position to the next as it fires an event on it.               *)
Fire(r, from, to) ==
  IF r = "held"
    THEN /\ recognition = from
         /\ recognition' = to
         /\ orphans' = orphans
    ELSE /\ BagIn(from, orphans)
         /\ orphans' = (orphans (-) One(from)) (+) (IF to = "ended" THEN EmptyBag ELSE One(to))
         /\ recognition' = recognition

(* recognition.onstart: lines 26-30 *)
onstart(r) ==
  /\ PageLoaded
  /\ Fire(r, "starting", "active")
  /\ listening' = TRUE
  /\ micLabel' = IF Has("micBtn") THEN ListeningLabel ELSE micLabel
  /\ last' = Ran("onstart", "", FALSE, << >>)
  /\ UNCHANGED <<window, dom, emailValue, userText, botText, synth, asks, resets,
                 logouts, location>>

(* recognition.onresult up to its first await: lines 32-42 *)
AskEmail_NoTrim == IF Has("emailField") THEN emailValue ELSE << >>
AskEmail == IF Has("emailField") THEN Trim(emailValue) ELSE << >>

onresult(r, text) ==
  /\ PageLoaded
  /\ Fire(r, "active", "resulted")
  /\ InFlight < MaxInFlight
  /\ IF Has("userText")
       THEN /\ userText' = text
            /\ asks' = Append(asks, Request(text, AskEmail))
            /\ last' = Ran("onresult", text, FALSE,
                           << SetValue("userText", text), Fetch(AskUrl, text, AskEmail) >>)
       ELSE /\ last' = Ran("onresult", text, TRUE, << >>)
            /\ UNCHANGED <<userText, asks>>
  /\ UNCHANGED <<window, dom, emailValue, listening, micLabel, botText, synth, resets,
                 logouts, location>>

(* recognition.onerror: lines 49-54 *)
onerror_KeepsLabel(r) ==
  /\ PageLoaded
  /\ \E from \in {"starting", "active"} : Fire(r, from, "errored")
  /\ listening' = FALSE
  /\ last' = Ran("onerror", "", FALSE, << Log("console.error") >>)
  /\ UNCHANGED <<window, dom, emailValue, micLabel, userText, botText, synth, asks,
                 resets, logouts, location>>
onerror(r) ==
  /\ PageLoaded
  /\ \E from \in {"starting", "active"} : Fire(r, from, "errored")
  /\ listening' = FALSE
  /\ micLabel' = IF Has("micBtn") THEN IdleLabel ELSE micLabel
  /\ last' = Ran("onerror", "", FALSE, << Log("console.error") >>)
  /\ UNCHANGED <<window, dom, emailValue, userText, botText, synth, asks, resets,
                 logouts, location>>

(* recognition.onend: lines 56-60 *)
onend_KeepsListening(r) ==
  /\ PageLoaded
  /\ \E from \in LivePositions : Fire(r, from, "ended")
  /\ micLabel' = IF Has("micBtn") THEN IdleLabel ELSE micLabel
  /\ last' = Ran("onend", "", FALSE, << >>)
  /\ UNCHANGED <<window, dom, emailValue, listening, userText, botText, synth, asks,
                 resets, logouts, location>>
onend_LeavesLabel(r) ==
  /\ PageLoaded
  /\ \E from \in LivePositions : Fire(r, from, "ended")
  /\ listening' = FALSE
  /\ last' = Ran("onend", "", FALSE, << >>)
  /\ UNCHANGED <<window, dom, emailValue, micLabel, userText, botText, synth, asks,
                 resets, logouts, location>>
onend(r) ==
  /\ PageLoaded
  /\ \E from \in LivePositions : Fire(r, from, "ended")
  /\ listening' = FALSE
  /\ micLabel' = IF Has("micBtn") THEN IdleLabel ELSE micLabel
  /\ last' = Ran("onend", "", FALSE, << >>)
  /\ UNCHANGED <<window, dom, emailValue, userText, botText, synth, asks, resets,
                 logouts, location>>

-----------------------------------------------------------------------------
(* stopAll(): lines 66-75.  stopThrew: recognition.stop() raised, which the  *)
(* try/catch of line 68 logs and swallows.  stop() only asks the browser to  *)
(* end the recognizer: its end event comes later, so a recognizer released   *)
(* at line 69 while still running becomes an orphan.                         *)
StopOutcomes == IF recognition = null THEN {FALSE} ELSE BOOLEAN

stopAllCalls(stopThrew) ==
  (IF recognition # null
     THEN << StopCall >> \o (IF stopThrew THEN << Log("console.warn") >> ELSE << >>)
     ELSE << >>)
  \o << Cancel >>

stopAllBody_OnlyWhenHeld ==
  /\ orphans' = Released
  /\ recognition' = null
  /\ synth' = << >>
  /\ listening' = (IF recognition # null THEN FALSE ELSE listening)
  /\ micLabel' = IF Has("micBtn") /\ recognition # null THEN IdleLabel ELSE micLabel
stopAllBody_KeepsReference ==
  /\ UNCHANGED <<recognition, orphans>>
  /\ synth' = << >>
  /\ listening' = FALSE
  /\ micLabel' = IF Has("micBtn") THEN IdleLabel ELSE micLabel
stopAllBody ==
  /\ orphans' = Released
  /\ recognition' = null
  /\ synth' = << >>
  /\ listening' = FALSE
  /\ micLabel' = IF Has("micBtn") THEN IdleLabel ELSE micLabel

(* the click handler of #stopBtn *)
stopAll_AbortsAsks ==
  /\ PageLoaded /\ Has("stopBtn")
  /\ stopAllBody
  /\ \E stopThrew \in StopOutcomes :
       last' = Ran("stopAll", "", FALSE, stopAllCalls(stopThrew))
  /\ asks' = << >>
  /\ UNCHANGED <<window, dom, emailValue, userText, botText, resets, logouts, location>>
stopAll_NoTryCatch ==
  /\ PageLoaded /\ Has("stopBtn")
  /\ \E stopThrew \in StopOutcomes :
       IF stopThrew
         THEN /\ last' = Ran("stopAll", "", TRUE, << StopCall >>)
              /\ UNCHANGED <<recognition, orphans, synth, listening, micLabel>>
         ELSE /\ stopAllBody
              /\ last' = Ran("stopAll", "", FALSE, stopAllCalls(stopThrew))
  /\ UNCHANGED <<window, dom, emailValue, userText, botText, asks, resets, logouts,
                 location>>
stopAll ==
  /\ PageLoaded /\ Has("stopBtn")
  /\ stopAllBody
  /\ \E stopThrew \in StopOutcomes :
       last' = Ran("stopAll", "", FALSE, stopAllCalls(stopThrew))
  /\ UNCHANGED <<window, dom, emailValue, userText, botText, asks, resets, logouts,
                 location>>

(* resetUI() up to its await, the click handler of #resetBtn: lines 78-84 *)
resetCalls ==
  (IF Has("userText") THEN << SetValue("userText", "") >> ELSE << >>)
  \o (IF Has("botText") THEN << SetValue("botText", "") >> ELSE << >>)
  \o << Fetch(ResetUrl, "", << >>) >>

resetUI_StopOnlyIfListening ==
  /\ PageLoaded /\ Has("resetBtn")
  /\ InFlight < MaxInFlight
  /\ IF listening
       THEN /\ stopAllBody
            /\ \E stopThrew \in StopOutcomes :
                 last' = Ran("resetUI", "", FALSE, stopAllCalls(stopThrew) \o resetCalls)
       ELSE /\ last' = Ran("resetUI", "", FALSE, resetCalls)
            /\ UNCHANGED <<recognition, orphans, synth, listening, micLabel>>
  /\ userText' = IF Has("userText") THEN "" ELSE userText
  /\ botText' = IF Has("botText") THEN "" ELSE botText
  /\ resets' = resets + 1
  /\ UNCHANGED <<window, dom, emailValue, asks, logouts, location>>
resetUI ==
  /\ PageLoaded /\ Has("resetBtn")
  /\ InFlight < MaxInFlight
  /\ stopAllBody
  /\ \E stopThrew \in StopOutcomes :
       last' = Ran("resetUI", "", FALSE, stopAllCalls(stopThrew) \o resetCalls)
  /\ userText' = IF Has("userText") THEN "" ELSE userText
  /\ botText' = IF Has("botText") THEN "" ELSE botText
  /\ resets' = resets + 1
  /\ UNCHANGED <<window, dom, emailValue, asks, logouts, location>>

(* resetUI() after its await: lines 84-85 hold no further statement; a       *)
(* rejected fetch leaves the async function as an unhandled rejection        *)
resetSettled(ok) ==
  /\ PageLoaded
  /\ resets > 0
  /\ resets' = resets - 1
  /\ last' = Ran("resetUI.resume", "", ~ok, << >>)
  /\ UNCHANGED <<window, dom, emailValue, recognition, orphans, listening, micLabel,
                 userText, botText, synth, asks, logouts, location>>

(* logout() up to its await, the click handler of #logoutBtn: lines 88-89 *)
logout ==
  /\ PageLoaded /\ Has("logoutBtn")
  /\ InFlight < MaxInFlight
  /\ logouts' = logouts + 1
  /\ last' = Ran("logout", "", FALSE, << Fetch(LogoutUrl, "", << >>) >>)
  /\ UNCHANGED <<window, dom, emailValue, recognition, orphans, listening, micLabel,
                 userText, botText, synth, asks, resets, location>>

(* logout() after its await: line 90 runs only when the fetch promise is     *)
(* fulfilled (any HTTP status); a rejected fetch leaves the async function   *)
logoutResume(ok) ==
  IF ok THEN Ran("logout.resume", "", FALSE, << Navigate(LoginPage) >>)
        ELSE Ran("logout.resume", "", TRUE, << >>)

logoutSettled(ok) ==
  /\ PageLoaded
  /\ logouts > 0
  /\ logouts' = logouts - 1
  /\ last' = logoutResume(ok)
  /\ location' = IF ok THEN LoginPage ELSE location
  /\ UNCHANGED <<window, dom, emailValue, recognition, orphans, listening, micLabel,
                 userText, botText, synth, asks, resets>>

-----------------------------------------------------------------------------
(* What the two awaits of onresult (fetch of line 38, res.json() of line 43) *)
(* can deliver: a rejected fetch, a body that is not JSON, the JSON value    *)
(* null, or a JSON object with or without a reply field.  The handler does   *)
(* nothing between the two awaits, so they resume as one step.               *)
AskOutcomes ==
  {Outcome("object", TRUE, r) : r \in Replies}
  \cup {Outcome(k, FALSE, "") : k \in {"object", "null", "notjson", "neterror"}}

(* line 44: out.reply || <fallback> *)
ReplyOf_PresenceTest(out) == IF out.has THEN out.reply ELSE Fallback
ReplyOf(out) == IF out.has /\ ~Falsy(out.reply) THEN out.reply ELSE Fallback

(* the suspended handler of request req resumes with outcome out *)
Resumed(req, out, threw, calls) ==
  [Settled("onresult.resume", out, threw, calls) EXCEPT !.text = req.message]

(* onresult after its awaits: lines 43-46 *)
askSettled_LatestOnly(i, out) ==
  /\ PageLoaded
  /\ i \in DOMAIN asks
  /\ asks' = RemoveAt(asks, i)
  /\ IF out.kind = "object" /\ Has("botText") /\ i = Len(asks)
       THEN /\ botText' = ReplyOf(out)
            /\ synth' = speakQueue(ReplyOf(out), synth)
            /\ last' = Resumed(asks[i], out, FALSE,
                               << SetValue("botText", ReplyOf(out)) >> \o speakCalls(ReplyOf(out)))
       ELSE /\ last' = Resumed(asks[i], out, out.kind # "object", << >>)
            /\ UNCHANGED <<botText, synth>>
  /\ UNCHANGED <<window, dom, emailValue, recognition, orphans, listening, micLabel,
                 userText, resets, logouts, location>>
askSettled_FallbackOnFailure(i, out) ==
  /\ PageLoaded
  /\ i \in DOMAIN asks
  /\ asks' = RemoveAt(asks, i)
  /\ IF Has("botText")
       THEN /\ botText' = ReplyOf(out)
            /\ synth' = speakQueue(ReplyOf(out), synth)
            /\ last' = Resumed(asks[i], out, FALSE,
                               << SetValue("botText", ReplyOf(out)) >> \o speakCalls(ReplyOf(out)))
       ELSE /\ last' = Resumed(asks[i], out, TRUE, << >>)
            /\ UNCHANGED <<botText, synth>>
  /\ UNCHANGED <<window, dom, emailValue, recognition, orphans, listening, micLabel,
                 userText, resets, logouts, location>>
askSettled(i, out) ==
  /\ PageLoaded
  /\ i \in DOMAIN asks
  /\ asks' = RemoveAt(asks, i)
  /\ IF out.kind = "object" /\ Has("botText")
       THEN /\ botText' = ReplyOf(out)
            /\ synth' = speakQueue(ReplyOf(out), synth)
            /\ last' = Resumed(asks[i], out, FALSE,
                               << SetValue("botText", ReplyOf(out)) >> \o speakCalls(ReplyOf(out)))
       ELSE /\ last' = Resumed(asks[i], out, TRUE, << >>)
            /\ UNCHANGED <<botText, synth>>
  /\ UNCHANGED <<window, dom, emailValue, recognition, orphans, listening, micLabel,
                 userText, resets, logouts, location>>

(* the synthesizer finishes the utterance at the head of its queue *)
utteranceEnd ==
  /\ PageLoaded
  /\ synth # << >>
  /\ synth' = Tail(synth)
  /\ last' = Ran("utterance.end", "", FALSE, << >>)
  /\ UNCHANGED <<window, dom, emailValue, recognition, orphans, listening, micLabel,
                 userText, botText, asks, resets, logouts, location>>

-----------------------------------------------------------------------------
Next ==
  \/ startRecognition
  \/ \E r \in Refs : onstart(r)
  \/ \E r \in Refs, text \in Transcripts : onresult(r, text)
  \/ \E r \in Refs : onerror(r)
  \/ \E r \in Refs : onend(r)
  \/ stopAll
  \/ resetUI
  \/ \E ok \in BOOLEAN : resetSettled(ok)
  \/ logout
  \/ \E ok \in BOOLEAN : logoutSettled(ok)
  \/ \E i \in 1..MaxInFlight, out \in AskOutcomes : askSettled(i, out)
  \/ utteranceEnd

Spec == Init /\ [][Next]_vars

(* speak(text) called directly: it is a global function of the page *)
SpokenTexts == Replies \cup {Fallback}

speak(text) ==
  /\ PageLoaded
  /\ synth' = speakQueue(text, synth)
  /\ last' = Ran("speak", text, FALSE, speakCalls(text))
  /\ UNCHANGED <<window, dom, emailValue, recognition, orphans, listening, micLabel,
                 userText, botText, asks, resets, logouts, location>>

NextSpeak ==
  \/ Next
  \/ \E text \in SpokenTexts : speak(text)

SpecSpeak == Init /\ [][NextSpeak]_vars

-----------------------------------------------------------------------------
(* Properties *)

Op(name) == last.op = name
Started(p) == p \in {"active", "resulted"}
Controller == <<recognition, orphans, listening, micLabel>>
Spaces(n) == [k \in 1..n |-> " "]
(* t is v without its leading and trailing white space *)
IsTrimOf(t, v) ==
  /\ t = << >> \/ (t[1] # " " /\ t[Len(t)] # " ")
  /\ \E i, j \in 0..Len(v) : v = Spaces(i) \o t \o Spaces(j)

(* C1: in every reachable state at most one recognizer has been created and  *)
(* has not yet ended.  The code breaks it: listening is set only by the      *)
(* start event, so a second press before that event starts a second one.     *)
C1_AtMostOneSession == LiveCount <= 1

(* C2: startRecognition while listening is true is a no-op: it creates and   *)
(* starts no recognizer, raises no alert, and leaves the recognition         *)
(* reference, the listening flag and the mic label unchanged.                *)
C2_StartWhileListeningIsNoop ==
  [][(last'.op = "startRecognition" /\ listening)
       => (last'.calls = << >> /\ ~last'.threw /\ UNCHANGED Controller)]_vars

C2_Witness ==
  Op("startRecognition") /\ listening /\ Started(recognition) /\ last.calls = << >>

C4_ResetOrder ==
  /\ [](Op("resetUI") =>
          LET c == last.calls
              n == Len(c)
          IN /\ ~last.threw
             /\ recognition = null /\ ~listening /\ micLabel = IdleLabel /\ synth = << >>
             /\ userText = "" /\ botText = ""
             /\ resets > 0
             /\ n \in {4, 5, 6}
             /\ c[n] = Fetch(ResetUrl, "", << >>)
             /\ c[n - 1] = SetValue("botText", "")
             /\ c[n - 2] = SetValue("userText", "")
             /\ c[n - 3] = Cancel
             /\ \A k \in 1..(n - 4) : c[k].f \in {"recognition.stop", "console.warn"}
             /\ n > 4 => c[1] = StopCall)
  /\ [][last'.op = "resetUI.resume"
          => UNCHANGED <<Controller, userText, botText, synth>>]_vars

C4_Witness ==
  /\ Op("resetUI") /\ last.calls[1] = StopCall
  /\ userText = "" /\ botText = "" /\ resets > 0

(* C5: once the GET /logout call has settled, however it settled, the page   *)
(* is at /login.  The code navigates only when the fetch promise fulfils.    *)
C5_LogoutAlwaysNavigates == Op("logout.resume") => location = LoginPage

(* C6: a result event writes its transcript to the user-text field and       *)
(* issues exactly one POST /ask, with message the transcript and email the   *)
(* trimmed value of the email field, or empty when the field is absent.      *)
C6_ResultPostsAsk ==
  Op("onresult") =>
    /\ ~last.threw
    /\ userText = last.text
    /\ Len(last.calls) = 2
    /\ last.calls[1] = SetValue("userText", last.text)
    /\ last.calls[2].f = "fetch" /\ last.calls[2].target = AskUrl
    /\ last.calls[2].text = last.text
    /\ IF "emailField" \in dom
         THEN IsTrimOf(last.calls[2].email, emailValue)
         ELSE last.calls[2].email = << >>
    /\ asks # << >>
    /\ asks[Len(asks)] = [message |-> last.text, email |-> last.calls[2].email]

C6_Witness ==
  /\ Op("onresult") /\ "emailField" \in dom
  /\ emailValue[1] = " " /\ asks[Len(asks)].email # emailValue

(* C7 as claimed: a reply field that is present is shown and spoken verbatim *)
(* whatever its value; an absent one gives the fallback message.             *)
C7_ReplyVerbatimWhenPresent ==
  (Op("onresult.resume") /\ last.out.kind = "object") =>
    LET shown == IF last.out.has THEN last.out.reply ELSE Fallback
    IN /\ botText = shown
       /\ shown # "" => synth = << shown >>

(* C7 amended: a reply that is present and not empty is shown and spoken     *)
(* verbatim; an absent or empty one gives the fallback message, shown and    *)
(* spoken.                                                                   *)
C7_ReplyOrFallback ==
  (Op("onresult.resume") /\ last.out.kind = "object") =>
    LET shown == IF last.out.has /\ last.out.reply # "" THEN last.out.reply ELSE Fallback
    IN /\ ~last.threw
       /\ botText = shown
       /\ synth = << shown >>
       /\ last.calls = << SetValue("botText", shown), Cancel, SpeakCall(shown) >>

C7_Witness ==
  /\ Op("onresult.resume") /\ last.out.kind = "object"
  /\ last.out.has /\ last.out.reply = ""
  /\ botText = Fallback /\ synth = << Fallback >>

(* C8 as claimed: while a recognizer has fired start and neither error nor   *)
(* end, the mic label is the listening indicator.                            *)
C8_LabelListeningUntilEnd ==
  (Started(recognition) \/ \E p \in LivePositions : Started(p) /\ BagIn(p, orphans))
    => micLabel = ListeningLabel

(* C8 amended: the start event sets the label to the listening indicator; it *)
(* stays so until the next end or error event of any recognizer or the next  *)
(* Stop-All or Reset, each of which leaves it idle; nothing else changes it. *)
C8_LabelFollowsEvents ==
  [][/\ last'.op = "onstart" => micLabel' = ListeningLabel
     /\ last'.op \in {"onend", "onerror", "stopAll", "resetUI"} => micLabel' = IdleLabel
     /\ micLabel' # micLabel
          => last'.op \in {"onstart", "onend", "onerror", "stopAll", "resetUI"}]_vars

C8_Witness ==
  /\ Op("stopAll") /\ micLabel = IdleLabel
  /\ \E p \in LivePositions : Started(p) /\ BagIn(p, orphans)

(* C9: without SpeechRecognition and webkitSpeechRecognition, a              *)
(* startRecognition call made while not listening creates no recognizer,     *)
(* raises the unsupported alert exactly once and changes none of the         *)
(* recognition reference, the listening flag and the mic label.              *)
C9_UnsupportedAlertsOnce ==
  [][(last'.op = "startRecognition" /\ window \cap Capabilities = {} /\ ~listening)
       => /\ last'.calls = << Alert(UnsupportedMsg) >>
          /\ ~last'.threw
          /\ UNCHANGED Controller]_vars

C9_Witness ==
  /\ Op("startRecognition") /\ window \cap Capabilities = {}
  /\ last.calls = << Alert(UnsupportedMsg) >> /\ LiveCount = 0

(* C10: the speech queue never holds more than one utterance; speak with a   *)
(* non-empty text cancels what is queued and enqueues exactly that text,     *)
(* speak with an empty text neither cancels nor enqueues.                    *)
C10_AtMostOneUtterance ==
  /\ [](Len(synth) <= 1)
  /\ [][last'.op = "speak" =>
          IF last'.text = ""
            THEN synth' = synth /\ last'.calls = << >>
            ELSE /\ synth' = << last'.text >>
                 /\ last'.calls = << Cancel, SpeakCall(last'.text) >>]_vars

C10_Witness == Op("speak") /\ last.text = "" /\ Len(synth) = 1

StartedExists ==
  Started(recognition) \/ \E p \in LivePositions : Started(p) /\ BagIn(p, orphans)
StartedOrErroredExists ==
  StartedExists \/ recognition = "errored" \/ BagIn("errored", orphans)

(* C11 as claimed: listening is true exactly when a recognizer has fired     *)
(* start and has not yet fired end.  Stated by its two directions, each as   *)
(* far as the lifecycle positions tell: a recognizer that fired start and    *)
(* neither error nor end makes listening true, and listening true needs a    *)
(* recognizer past its start or error event and before its end event.        *)
C11_ListeningMirrorsActivity ==
  /\ StartedExists => listening
  /\ listening => StartedOrErroredExists

(* C11 amended: listening is true only while a recognizer has fired start    *)
(* and neither error nor end; it is true right after a start event and false *)
(* right after an error event, an end event, Stop-All or Reset, also while   *)
(* a started recognizer has not ended yet.                                   *)
C11_ListeningImpliesStarted ==
  /\ listening => StartedExists
  /\ Op("onstart") => listening
  /\ last.op \in {"onerror", "onend", "stopAll", "resetUI"} => ~listening

C11_Witness == Op("resetUI") /\ ~listening /\ BagIn("active", orphans)

(* C12 as claimed: whenever no recognizer is alive (initially, after an end  *)
(* or error event, after Stop-All) the recognition variable is null.         *)
C12_NullWhenIdle == LiveCount = 0 => recognition = null

(* C12 amended: the recognition variable is null initially and after         *)
(* Stop-All or Reset, and stays null until the next startRecognition that    *)
(* creates a recognizer; error and end events never clear it, so after them  *)
(* it still refers to the ended recognizer.                                  *)
C12_NullOnlyByStopAll ==
  /\ [](last.op \in {"load", "stopAll", "resetUI"} => recognition = null)
  /\ [][/\ (recognition = null /\ recognition' # null) => last'.op = "startRecognition"
        /\ (recognition # null /\ recognition' = null) => last'.op \in {"stopAll", "resetUI"}
        /\ (last'.op \in {"onerror", "onend"} /\ recognition # null) => recognition' # null]_vars

C12_Witness == Op("onend") /\ recognition = "ended" /\ LiveCount = 0 /\ ~listening

(* C13: Stop-All or Reset while a result handler is suspended on its /ask    *)
(* request cancels speech output and resets the label at once and leaves    *)
(* the request in flight; when the response arrives right after, or later,   *)
(* its reply is still written to the bot-text field and spoken.              *)
C13_StopDoesNotAbortAsk ==
  [][/\ last'.op \in {"stopAll", "resetUI"}
          => (asks' = asks /\ synth' = << >> /\ micLabel' = IdleLabel)
     /\ (last'.op = "onresult.resume" /\ last'.out.kind = "object")
          => /\ Len(asks') = Len(asks) - 1
             /\ botText' = ReplyOf(last'.out)
             /\ synth' = << ReplyOf(last'.out) >>]_vars

(* a reply shown and spoken after a Reset that followed its result event:    *)
(* only Reset empties the user-text field, only a reply fills bot-text       *)
C13_Witness ==
  /\ Op("onresult.resume") /\ ~last.threw
  /\ userText = "" /\ recognition = null
  /\ botText # "" /\ synth = << botText >>

(* C14: each suspended result handler resumes with the outcome of its own    *)
(* request, whichever position it has among the requests in flight, and      *)
(* then renders and speaks that reply without touching the user-text field:  *)
(* replies are rendered in resolution order.                                 *)
C14_RepliesInResolutionOrder ==
  [][last'.op = "onresult.resume" =>
       /\ \E i \in DOMAIN asks :
            asks[i].message = last'.text /\ asks' = RemoveAt(asks, i)
       /\ userText' = userText
       /\ last'.out.kind = "object" =>
            /\ botText' = ReplyOf(last'.out)
            /\ synth' = << ReplyOf(last'.out) >>
            /\ last'.calls = << SetValue("botText", botText'), Cancel, SpeakCall(botText') >>]_vars

(* both requests have resolved, the earlier one last: bot-text shows the     *)
(* reply to an utterance that is not the one user-text shows                 *)
C14_Witness ==
  /\ Op("onresult.resume") /\ ~last.threw /\ asks = << >>
  /\ userText # "" /\ last.text # userText
  /\ botText = ReplyOf(last.out)

AskFailed(l) == l.op = "onresult.resume" /\ l.out.kind \in {"neterror", "notjson"}

(* C15 as claimed: when the /ask request of a turn fails, the turn leaves    *)
(* bot-text and the speech queue alone, the user-text field holds that       *)
(* turn's transcript, and listening and the session reference are unchanged. *)
C15_FailedAskKeepsTranscript ==
  [][AskFailed(last') =>
       /\ last'.threw /\ last'.calls = << >>
       /\ UNCHANGED <<botText, synth, listening, recognition, orphans>>
       /\ userText' = last'.text]_vars

(* C15 amended: when the /ask request of a turn fails, the turn leaves       *)
(* bot-text, the speech queue, user-text, listening and the session          *)
(* reference as they are: user-text holds the turn's transcript unless a     *)
(* Reset or a later result event has replaced it meanwhile.                  *)
C15_FailedAskChangesNothing ==
  [][AskFailed(last') =>
       /\ last'.threw /\ last'.calls = << >>
       /\ Len(asks') = Len(asks) - 1
       /\ UNCHANGED <<botText, synth, userText, listening, micLabel, recognition, orphans>>
       /\ (Op("onresult") /\ last.text = last'.text) => userText' = last'.text]_vars

C15_Witness ==
  /\ AskFailed(last) /\ last.threw
  /\ userText = last.text /\ botText = "" /\ synth = << >>

(* C16: Stop-All from any state, also when recognition.stop() throws, does   *)
(* not raise and ends with the reference null, the speech queue cancelled,   *)
(* listening false and the mic label idle; a failure of stop() is logged.    *)
C16_StopAllTolerantOfFailure ==
  Op("stopAll") =>
    LET c == last.calls
    IN /\ ~last.threw
       /\ recognition = null /\ synth = << >> /\ ~listening /\ micLabel = IdleLabel
       /\ c[Len(c)] = Cancel
       /\ \A k \in 1..(Len(c) - 1) :
            \/ k = 1 /\ c[k] = StopCall
            \/ k = 2 /\ c[k] = Log("console.warn")

C16_Witness ==
  /\ Op("stopAll") /\ last.calls = << StopCall, Log("console.warn"), Cancel >>
  /\ recognition = null /\ ~listening /\ micLabel = IdleLabel

-----------------------------------------------------------------------------
(* The page with every element, in a browser with recognition, where the    *)
(* browser fires the end event of every recognizer it runs.                  *)
InitLive == Init /\ window = {"webkitSpeechRecognition"} /\ dom = Elements
EndEvent == \E r \in Refs : onend(r)
SpecLive == InitLive /\ [][Next]_vars /\ WF_vars(EndEvent)

Idle == ~listening /\ micLabel = IdleLabel

(* C17: when the browser fires the end event of every recognizer and the     *)
(* mic button is eventually no longer pressed, the controller (as long as    *)
(* the page is loaded) reaches the idle state, listening false and label     *)
(* idle, and stays there; only a mic press ever creates a recognizer.        *)
C17_EventuallyIdle ==
  /\ (<>[][last'.op # "startRecognition"]_vars) => <>[](PageLoaded => Idle)
  /\ [][LiveCount' > LiveCount => last'.op = "startRecognition"]_vars

C17_Witness == Op("onend") /\ Idle /\ LiveCount = 0 /\ recognition = "ended"

-----------------------------------------------------------------------------
(* Pages lacking any subset of the elements the script looks up, in a        *)
(* browser with recognition.                                                 *)
InitDom ==
  /\ window = {"webkitSpeechRecognition"}
  /\ dom \in SUBSET Elements
  /\ emailValue \in (IF Has("emailField") THEN EmailValues ELSE {<< >>})
  /\ recognition = null
  /\ orphans = EmptyBag
  /\ listening = FALSE
  /\ micLabel = IdleLabel
  /\ userText = ""
  /\ botText = ""
  /\ synth = << >>
  /\ asks = << >>
  /\ resets = 0
  /\ logouts = 0
  /\ location = "/"
  /\ last = Ran("load", "", FALSE, << >>)
SpecDom == InitDom /\ [][Next]_vars

(* C18: whatever elements the page lacks, no handler raises an error because *)
(* of them: the result handler does not throw before its request, and its    *)
(* continuation does not throw once the reply has been parsed.               *)
C18_MissingElementsNonFatal ==
  /\ ~(Op("onresult") /\ last.threw)
  /\ ~(Op("onresult.resume") /\ last.out.kind = "object" /\ last.threw)

-----------------------------------------------------------------------------
(* C19: from the return of Stop-All until the next mic press creates a       *)
(* recognizer (the span in which the reference is null), listening is false  *)
(* and the mic label is idle, whatever callbacks of released recognizers     *)
(* the browser still delivers.                                               *)
C19_StaysIdleAfterStopAll == recognition = null => Idle

=============================================================================
